---- MODULE Spec2Model ----
(***************************************************************************)
(* A model of magnetico_merge.py: merging a source torrent database into a *)
(* target database, batch by batch, inside one target transaction.         *)
(*                                                                         *)
(* Text values are sequences of character codes; NUL is the code 0.        *)
(* A database is a record [torrents, files] of sets of rows.  A file row   *)
(* of the target carries one field the program does not have, origin: the  *)
(* id of the source file row it was copied from (0 for a row the target    *)
(* held before the merge).                                                 *)
(***************************************************************************)
EXTENDS Integers, Sequences, FiniteSets, TLC

\* ------------------------------------------------------------------ bounds
\* Most torrents in the source database.
MaxTorrents == 3
\* A source torrent has either no file rows or MaxFiles file rows.
MaxFiles == 2
\* Most file rows of the unrelated torrent the target may hold beforehand.
MaxPre == 2
\* The rounds of a retry loop that never ends are counted modulo RetryWrap.
RetryWrap == 2

\* ----------------------------------------------------- program constants
\* The embedded null character "\x00" that fix_bytes removes.
NUL == 0
\* main iterates with arraysize = 1000 torrents; scaled down here.
arraysize == 2
\* execute_values is called without page_size, so psycopg2 sends the rows
\* in pages of its default size (100); scaled down with arraysize.
page_size == 1

\* ------------------------------------------------------------ text values
HasNul(text) == \E i \in DOMAIN text : text[i] = NUL

IsChar(c) == c # NUL

\* str.replace("\x00", "")
StripNul(text) == SelectSeq(text, IsChar)

Min(a, b) == IF a <= b THEN a ELSE b

SetMax(S) == IF S = {} THEN 0 ELSE CHOOSE m \in S : \A x \in S : x <= m

RECURSIVE SeqOfSet(_)
\* The rows of a set as a sequence in id order (a SELECT in rowid order).
SeqOfSet(S) ==
    IF S = {} THEN <<>>
    ELSE LET lo == CHOOSE r \in S : \A q \in S : r.id <= q.id
         IN  <<lo>> \o SeqOfSet(S \ {lo})

\* ------------------------------------------------------ the two databases
\* Source torrent i has id SrcId(i) and content hash i.
SrcId(i) == 10 + i

\* Source file j of source torrent i.
SrcFileId(i, j) == 20 + (i - 1) * MaxFiles + j

NoNul == [col |-> "none", t |-> 0, j |-> 0]

\* The places of the source where one text value may hold a NUL.
NulSpots(n, nf) ==
    {[col |-> "name", t |-> i, j |-> 0] : i \in 1..n}
    \cup {[col |-> c, t |-> i, j |-> k] :
            c \in {"path", "content"}, i \in 1..n, k \in 1..MaxFiles}

TorrentName(i, nul) ==
    IF nul = [col |-> "name", t |-> i, j |-> 0] THEN <<i, NUL, i>> ELSE <<i, i>>

FilePath(i, j, nul) ==
    IF nul = [col |-> "path", t |-> i, j |-> j] THEN <<i, NUL, j>> ELSE <<i, j>>

\* content is NULL (the empty text here) unless the file is a readme.
FileContent(i, j, nul) ==
    IF nul = [col |-> "content", t |-> i, j |-> j] THEN <<NUL, j>> ELSE <<>>

SourceDb(n, nf, nul) ==
    [torrents |-> {[id |-> SrcId(i), info_hash |-> i, name |-> TorrentName(i, nul)] :
                      i \in 1..n},
     files |-> {[id |-> SrcFileId(i, j), torrent_id |-> SrcId(i),
                 path |-> FilePath(i, j, nul), content |-> FileContent(i, j, nul)] :
                   i \in {k \in 1..n : nf[k] > 0}, j \in 1..MaxFiles}]

\* The target before the merge: an unrelated torrent (hash 0) with pre file
\* rows when pre > 0, and one torrent for every source hash marked dup.
TargetDb(n, dup, pre) ==
    LET first == IF pre > 0 THEN 1 ELSE 0
        dups  == {i \in 1..n : dup[i]}
        rank(i) == Cardinality({k \in dups : k <= i})
    IN  [torrents |-> {[id |-> 1, info_hash |-> 0, name |-> <<9>>] : x \in 1..first}
                      \cup {[id |-> first + rank(i), info_hash |-> i, name |-> <<i, i>>] :
                               i \in dups},
         files |-> {[id |-> j, torrent_id |-> 1, path |-> <<9, j>>, content |-> <<>>,
                     origin |-> 0] : j \in 1..pre}]

\* ------------------------------------------------------- rows and inserts
\* id INTEGER PRIMARY KEY: the engine assigns the next id of the table.
TargetNewId(rows) == SetMax({r.id : r \in rows}) + 1

\* info_hash is UNIQUE: the conflict key of ON CONFLICT DO NOTHING.
HashExists(db, info_hash) == \E t \in db.torrents : t.info_hash = info_hash

\* INSERT INTO torrents (...) VALUES (...) ON CONFLICT DO NOTHING, one row.
InsertOrSkip(db, torrent) ==
    IF HashExists(db, torrent.info_hash) THEN db
    ELSE [db EXCEPT !.torrents = @ \cup
            {[id |-> TargetNewId(db.torrents), info_hash |-> torrent.info_hash,
              name |-> torrent.name]}]

RECURSIVE InsertFiles(_, _, _)
\* Insert source file rows, in order, with torrent_id rewritten through the
\* old-id -> new-id map torrent_ids.
InsertFiles(db, rows, torrent_ids) ==
    IF rows = <<>> THEN db
    ELSE LET f == Head(rows)
             row == [id |-> TargetNewId(db.files), torrent_id |-> torrent_ids[f.torrent_id],
                     path |-> f.path, content |-> f.content, origin |-> f.id]
         IN  InsertFiles([db EXCEPT !.files = @ \cup {row}], Tail(rows), torrent_ids)

\* Replace "\x00" by "" in one column of every row.
fix_bytes(rows, column) ==
    [i \in DOMAIN rows |-> [rows[i] EXCEPT ![column] = StripNul(@)]]

\* ------------------------------------------------------------ SQLite target
\* isinstance(self.source, SQLite): the source is attached to the target
\* connection.
merged_source(source_kind) == source_kind = "SQLite"

\* The schema name of the target on the target's connection.
target_db(merged) == IF merged THEN "target_db" ELSE "main"

\* SQLite.connect: the databases the target's connection sees, by schema
\* name.  With a SQLite source the connection is the source's, with the target
\* attached as target_db; otherwise it is a connection of the target's own.
connect(source, target, merged) ==
    IF merged THEN [main |-> source, target_db |-> target] ELSE [main |-> target]

\* The files statement with the table of the INSERT left unqualified, as the
\* table of the SELECT is: both are main.files.
SQLiteMergeFilesUnqualified(conn, merged, torrent_id, previous_torrent_id) ==
    IF merged
    THEN [conn EXCEPT !.main =
             InsertFiles(@,
                 SeqOfSet({f \in conn.main.files : f.torrent_id = previous_torrent_id}),
                 [old \in {previous_torrent_id} |-> torrent_id])]
    ELSE conn

\* SQLite.merge_files: INSERT INTO <target_db>.files SELECT ?, ... FROM files
\* WHERE torrent_id = ?, only when the source is attached; the unqualified
\* files of the SELECT is main.files.
SQLiteMergeFiles(conn, merged, torrent_id, previous_torrent_id) ==
    IF merged
    THEN [conn EXCEPT ![target_db(merged)] =
             InsertFiles(@,
                 SeqOfSet({f \in conn.main.files : f.torrent_id = previous_torrent_id}),
                 [old \in {previous_torrent_id} |-> torrent_id])]
    ELSE conn

\* cursor.lastrowid after an INSERT statement: the rowid of the last row the
\* connection inserted, unchanged when the statement inserted nothing.
LastRowId(before, after, lastrowid) ==
    IF after = before THEN lastrowid
    ELSE SetMax({r.id : r \in after \ before})

\* The test without "or lastrowid == 0": after an INSERT statement lastrowid
\* is an integer, never None.
RowFailedNoneOnly(lastrowid) == FALSE

\* A row counts as failed when lastrowid is None or 0.
RowFailed(lastrowid) == lastrowid = 0

\* One iteration of the loop over the torrents of a batch; st.conn is what
\* the connection sees, both statements write to <target_db>.
SQLiteMergeRow(st, torrent, merged, fault) ==
    IF fault = "insert" THEN [st EXCEPT !.status = "fatal"]
    ELSE
    LET name == target_db(merged)
        db1  == [st.conn EXCEPT ![name] = InsertOrSkip(@, torrent)]
        row1 == LastRowId(st.conn[name].torrents, db1[name].torrents, st.lastrowid)
    IN  IF RowFailed(row1)
        THEN [st EXCEPT !.conn = db1, !.lastrowid = row1,
                        !.processed = @ + 1, !.failed = @ + 1]
        ELSE IF fault = "files"
        THEN [st EXCEPT !.conn = db1, !.lastrowid = row1, !.processed = @ + 1,
                        !.inserted = @ + 1, !.status = "fatal"]
        ELSE LET db2 == SQLiteMergeFiles(db1, merged, row1, torrent.id)
             IN  [st EXCEPT !.conn = db2,
                            !.lastrowid = LastRowId(db1[name].files, db2[name].files, row1),
                            !.processed = @ + 1, !.inserted = @ + 1]

RECURSIVE SQLiteMergeRows(_, _, _, _)
SQLiteMergeRows(st, torrents, merged, fault) ==
    IF torrents = <<>> \/ st.status # "ok" THEN st
    ELSE SQLiteMergeRows(SQLiteMergeRow(st, Head(torrents), merged, fault),
                         Tail(torrents), merged, fault)

\* The "last" entry of a result: the last row of the batch, None (<<>>) for
\* the empty batch.
LastOf(torrents) ==
    IF Len(torrents) > 0 THEN <<torrents[Len(torrents)]>> ELSE <<>>

\* SQLite.merge_torrents.  db and source of the result are the target and
\* the source as the call leaves them.
SQLiteMergeTorrents(db, lastrowid, torrents, source, source_kind, fault) ==
    LET merged == merged_source(source_kind)
        st0 == [conn |-> connect(source, db, merged), lastrowid |-> lastrowid,
                failed |-> 0, inserted |-> 0, processed |-> 0, status |-> "ok"]
        st  == SQLiteMergeRows(st0, torrents, merged, fault)
    IN  [db |-> st.conn[target_db(merged)],
         source |-> IF merged THEN st.conn.main ELSE source,
         lastrowid |-> st.lastrowid, status |-> st.status,
         result |-> [failed |-> st.failed, inserted |-> st.inserted,
                     processed |-> st.processed, last |-> LastOf(torrents)]]

\* -------------------------------------------------------- PostgreSQL target
\* The first page of a paginated argument list, and what follows it.
FirstPage(rows) == SubSeq(rows, 1, Min(page_size, Len(rows)))

AfterFirstPage(rows) == SubSeq(rows, Min(page_size, Len(rows)) + 1, Len(rows))

RECURSIVE InsertTorrentPage(_, _, _)
\* One multi-row INSERT ... ON CONFLICT DO NOTHING RETURNING id: the ids of
\* the rows it inserted, in order; a row that conflicts returns nothing.
InsertTorrentPage(db, page, ids) ==
    IF page = <<>> THEN [db |-> db, ids |-> ids]
    ELSE LET db1 == InsertOrSkip(db, Head(page))
         IN  InsertTorrentPage(db1, Tail(page),
                 IF db1 = db THEN ids
                 ELSE Append(ids, LastRowId(db.torrents, db1.torrents, 0)))

RECURSIVE ExecuteValuesTorrents(_, _, _)
\* psycopg2.extras.execute_values(cursor, torrents_statement, rows,
\* fetch=True): page by page; adapting a text with a NUL raises ValueError
\* ("... cannot contain NUL (0x00) characters") before the page is sent, with
\* the earlier pages already executed.
ExecuteValuesTorrents(db, rows, result) ==
    IF rows = <<>> THEN [db |-> db, result |-> result, error |-> "none"]
    ELSE IF \E i \in DOMAIN FirstPage(rows) : HasNul(rows[i].name)
    THEN [db |-> db, result |-> result, error |-> "0x00"]
    ELSE LET r == InsertTorrentPage(db, FirstPage(rows), <<>>)
         IN  ExecuteValuesTorrents(r.db, AfterFirstPage(rows), result \o r.ids)

\* {torrent["id"]: one_result[0] for (one_result, torrent) in
\*  zip(result, torrents) if one_result[0] is not None}
TorrentIds(result, torrents) ==
    LET k == Min(Len(result), Len(torrents))
    IN  [old \in {torrents[i].id : i \in 1..k} |->
            result[CHOOSE i \in 1..k : torrents[i].id = old]]

\* The text columns of a file row.
FileHasNul(f) == HasNul(f.path) \/ HasNul(f.content)

\* get_source_files_cursor: SELECT * FROM files WHERE torrent_id IN (...).
SourceFiles(source, torrent_ids) ==
    SeqOfSet({f \in source.files : f.torrent_id \in DOMAIN torrent_ids})

\* copy_manager.threading_copy(self.get_source_files(torrent_ids, fix_nul)):
\* one COPY of every row; the server refuses a text with a NUL
\* (DataError, CHARACTER_NOT_IN_REPERTOIRE) and then copies nothing.
ThreadingCopy(db, source, torrent_ids, fix_nul) ==
    LET files == SourceFiles(source, torrent_ids)
        rows  == IF fix_nul THEN fix_bytes(files, "path") ELSE files
    IN  IF \E i \in DOMAIN rows : FileHasNul(rows[i])
        THEN [db |-> db, error |-> "DataError"]
        ELSE [db |-> InsertFiles(db, rows, torrent_ids), error |-> "none"]

\* merge_files with a copy manager: SAVEPOINT, copy, and on a DataError for a
\* character not in the repertoire ROLLBACK TO the savepoint and copy again
\* with the paths fixed; an error of the second copy propagates.
MergeFilesCopy(db, source, torrent_ids) ==
    LET first == ThreadingCopy(db, source, torrent_ids, FALSE)
        again == ThreadingCopy(db, source, torrent_ids, TRUE)
    IN  IF first.error = "none" THEN [db |-> first.db, status |-> "ok"]
        ELSE IF again.error = "none" THEN [db |-> again.db, status |-> "ok"]
        ELSE [db |-> db, status |-> "fatal"]

RECURSIVE ExecuteValuesFiles(_, _, _)
\* execute_values(cursor, files_statement, rows): page by page, ValueError
\* at the first page that holds a NUL.
ExecuteValuesFiles(db, rows, torrent_ids) ==
    IF rows = <<>> THEN [db |-> db, error |-> "none"]
    ELSE IF \E i \in DOMAIN FirstPage(rows) : FileHasNul(rows[i])
    THEN [db |-> db, error |-> "0x00"]
    ELSE ExecuteValuesFiles(InsertFiles(db, FirstPage(rows), torrent_ids),
                            AfterFirstPage(rows), torrent_ids)

\* files_cursor.fetchmany(): the next arraysize rows of the cursor.
FetchMany(rows) == SubSeq(rows, 1, Min(arraysize, Len(rows)))

AfterFetch(rows) == SubSeq(rows, Min(arraysize, Len(rows)) + 1, Len(rows))

RECURSIVE MergeFilesLoop(_, _, _, _)
\* The while loop of the slow path.  On ValueError with 0x00 the list is
\* fixed and the loop goes round with it again; when fixing changes nothing
\* the same error comes back on every round and the loop never ends ("hang").
MergeFilesLoop(db, files_list, cursor, torrent_ids) ==
    IF files_list = <<>> THEN [db |-> db, status |-> "ok"]
    ELSE LET ev == ExecuteValuesFiles(db, files_list, torrent_ids)
         IN  IF ev.error = "none"
             THEN MergeFilesLoop(ev.db, FetchMany(cursor), AfterFetch(cursor), torrent_ids)
             ELSE IF fix_bytes(files_list, "path") = files_list
             THEN [db |-> ev.db, status |-> "hang"]
             ELSE MergeFilesLoop(ev.db, fix_bytes(files_list, "path"), cursor, torrent_ids)

\* PostgreSQL.merge_files.
PGMergeFiles(db, source, torrent_ids, copy_manager) ==
    IF copy_manager
    THEN MergeFilesCopy(db, source, torrent_ids)
    ELSE LET cursor == SourceFiles(source, torrent_ids)
         IN  MergeFilesLoop(db, FetchMany(cursor), AfterFetch(cursor), torrent_ids)

\* failed counted as the null markers of the result, of which there are none.
PGResultNoneMarkers(torrents, result) ==
    [failed |-> Cardinality({i \in DOMAIN result : result[i] = 0}),
     inserted |-> Len(result), processed |-> Len(torrents), last |-> LastOf(torrents)]

\* The counts PostgreSQL.merge_torrents returns.
PGResult(torrents, result) ==
    [failed |-> Len(torrents) - Len(result), inserted |-> Len(result),
     processed |-> Len(torrents), last |-> LastOf(torrents)]

NoResult == [failed |-> 0, inserted |-> 0, processed |-> 0, last |-> <<>>]

\* The empty old-id -> new-id map.
NoIds == <<>>

RECURSIVE PGMergeTorrents(_, _, _, _, _)
\* PostgreSQL.merge_torrents.  fault "insert" is any other error of the
\* insert, fault "files" any other error of the file merge.  fault "value" is
\* a ValueError without "0x00" in its text raised by execute_values in the
\* slow path of merge_files: the except clause catches it and does nothing,
\* and the while loop goes round with the same files_list for ever.
PGMergeTorrents(db, torrents, source, copy_manager, fault) ==
    LET ev == ExecuteValuesTorrents(db, torrents, <<>>)
    IN  IF fault = "insert"
        THEN [db |-> db, status |-> "fatal", result |-> NoResult, torrent_ids |-> NoIds]
        ELSE IF ev.error = "0x00"
        THEN PGMergeTorrents(ev.db, fix_bytes(torrents, "name"), source,
                             copy_manager, fault)
        ELSE IF fault = "files"
        THEN [db |-> ev.db, status |-> "fatal", result |-> NoResult,
              torrent_ids |-> TorrentIds(ev.result, torrents)]
        ELSE IF /\ fault = "value"
                /\ ~copy_manager
                /\ SourceFiles(source, TorrentIds(ev.result, torrents)) # <<>>
        THEN [db |-> ev.db, status |-> "hang", result |-> NoResult,
              torrent_ids |-> TorrentIds(ev.result, torrents)]
        ELSE LET mf == PGMergeFiles(ev.db, source, TorrentIds(ev.result, torrents),
                                    copy_manager)
             IN  [db |-> mf.db, status |-> mf.status,
                  torrent_ids |-> TorrentIds(ev.result, torrents),
                  result |-> IF mf.status = "ok" THEN PGResult(torrents, ev.result)
                             ELSE NoResult]

\* ------------------------------------- indices and constraints (fast mode)
\* The schema of a target is [constraints, indices]: the names of the
\* constraints and of the indices on torrents and files.
PrimaryOrUnique == {"torrents_pkey", "torrents_info_hash_key", "files_pkey"}

ForeignKeys == {"files_torrent_id_fkey"}

\* ORDER BY CASE WHEN contype='f' THEN 0 ELSE 1 END, contype, nspname,
\* relname, conname: the order of the DROP statements.  The ADD statements
\* are ordered by the same keys, all descending.
DropOrder == <<"files_torrent_id_fkey", "files_pkey", "torrents_pkey">>

Reverse(seq) == [i \in DOMAIN seq |-> seq[Len(seq) + 1 - i]]

\* The ADD statements in the order of the DROP statements.
ConstraintStatementsAscending(schema) ==
    LET Captured(c) == c \in schema.constraints /\ c # "torrents_info_hash_key"
        drop == SelectSeq(DropOrder, Captured)
    IN  [create |-> drop, drop |-> drop]

\* generate_constraint_statements: every constraint of the two tables but
\* torrents_info_hash_key.
ConstraintStatements(schema) ==
    LET Captured(c) == c \in schema.constraints /\ c # "torrents_info_hash_key"
        drop == SelectSeq(DropOrder, Captured)
    IN  [create |-> Reverse(drop), drop |-> drop]

\* The query without "AND indexname != 'torrents_info_hash_key'".
get_indices_all(schema) == schema.indices

\* get_indices: every index of the two tables but torrents_info_hash_key.
get_indices(schema) == schema.indices \ {"torrents_info_hash_key"}

\* ALTER TABLE ... DROP CONSTRAINT: a primary key or unique constraint goes
\* with the index that backs it.
DropConstraint(schema, c) ==
    [constraints |-> schema.constraints \ {c},
     indices |-> IF c \in PrimaryOrUnique THEN schema.indices \ {c} ELSE schema.indices]

RECURSIVE DropConstraints(_, _)
DropConstraints(schema, statements) ==
    IF statements = <<>> THEN schema
    ELSE DropConstraints(DropConstraint(schema, Head(statements)), Tail(statements))

\* Every file row references a torrent row of the same database.
ReferencesHold(db) ==
    \A f \in db.files : \E t \in db.torrents : t.id = f.torrent_id

\* ALTER TABLE ... ADD CONSTRAINT is refused when the backing index name is
\* taken, when a foreign key has no primary key to reference, or when the
\* rows violate the foreign key.
CanAddConstraint(schema, c, db) ==
    /\ c \notin schema.constraints
    /\ c \in PrimaryOrUnique => c \notin schema.indices
    /\ c \in ForeignKeys => "torrents_pkey" \in schema.constraints /\ ReferencesHold(db)

AddConstraint(schema, c) ==
    [constraints |-> schema.constraints \cup {c},
     indices |-> IF c \in PrimaryOrUnique THEN schema.indices \cup {c} ELSE schema.indices]

RECURSIVE AddConstraints(_, _, _)
\* The loop over create_contraint_statements; ok is FALSE once a statement
\* was refused.
AddConstraints(schema, statements, db) ==
    IF statements = <<>> THEN [schema |-> schema, ok |-> TRUE]
    ELSE IF ~CanAddConstraint(schema, Head(statements), db)
    THEN [schema |-> schema, ok |-> FALSE]
    ELSE AddConstraints(AddConstraint(schema, Head(statements)), Tail(statements), db)

NothingSaved == [create |-> <<>>, drop |-> <<>>, indices |-> {}]

\* PostgreSQL.before_import, inside "with self.connection": committed when it
\* ends, rolled back when it raises.  DROP INDEX with no name is a syntax
\* error.
before_import(target_kind, schema, fast) ==
    IF target_kind # "PostgreSQL"
    THEN [schema |-> schema, saved |-> NothingSaved, ok |-> TRUE]
    ELSE LET st == ConstraintStatements(schema)
             dropped == DropConstraints(schema, st.drop)
             indices == get_indices(dropped)
         IN  IF ~fast
             THEN [schema |-> schema, ok |-> TRUE,
                   saved |-> [create |-> st.create, drop |-> st.drop, indices |-> {}]]
             ELSE IF indices = {}
             THEN [schema |-> schema, saved |-> NothingSaved, ok |-> FALSE]
             ELSE [schema |-> [dropped EXCEPT !.indices = @ \ indices], ok |-> TRUE,
                   saved |-> [create |-> st.create, drop |-> st.drop,
                              indices |-> indices]]

\* The names of a set of indices in the order self.indices holds them.
IndexStatements(indices) ==
    LET Kept(name) == name \in indices
    IN  SelectSeq(<<"readme_index", "modified_on_index">>, Kept)

\* The two loops in the other order: the constraints, then the indices.
after_import_constraints_first(target_kind, schema, saved, fast, db) ==
    IF target_kind # "PostgreSQL" \/ ~fast
    THEN [schema |-> schema, ok |-> TRUE, log |-> <<>>]
    ELSE LET added == AddConstraints(schema, saved.create, db)
         IN  IF added.ok /\ saved.indices \cap schema.indices = {}
             THEN [schema |-> [added.schema EXCEPT !.indices = @ \cup saved.indices],
                   ok |-> TRUE,
                   log |-> saved.create \o IndexStatements(saved.indices)]
             ELSE [schema |-> schema, ok |-> FALSE, log |-> <<>>]

\* PostgreSQL.after_import, inside "with self.connection": the indices first,
\* then the constraints.  log is the sequence of the definitions recreated,
\* in the order of the statements; nothing stays when a statement is refused.
after_import(target_kind, schema, saved, fast, db) ==
    IF target_kind # "PostgreSQL" \/ ~fast
    THEN [schema |-> schema, ok |-> TRUE, log |-> <<>>]
    ELSE IF saved.indices \cap schema.indices # {}
    THEN [schema |-> schema, ok |-> FALSE, log |-> <<>>]
    ELSE LET indexed == [schema EXCEPT !.indices = @ \cup saved.indices]
             added == AddConstraints(indexed, saved.create, db)
         IN  IF added.ok
             THEN [schema |-> added.schema, ok |-> TRUE,
                   log |-> IndexStatements(saved.indices) \o saved.create]
             ELSE [schema |-> schema, ok |-> FALSE, log |-> <<>>]

\* connection.commit() and connection.rollback() on the pair of what the
\* connection sees and what the database holds durably.
commit(work, durable) == [work |-> work, durable |-> work]

\* The except branch committing what the connection sees.
rollback_as_commit(work, durable) == [work |-> work, durable |-> work]

rollback(work, durable) == [work |-> durable, durable |-> durable]

\* ------------------------------------------------------------------- state
VARIABLES
    target_kind,    \* "SQLite" or "PostgreSQL": the class of the target
    source_kind,    \* the class of the source
    options,        \* [fast, stripped_files]
    pgcopy,         \* whether the pgcopy module could be imported
    source,         \* the source database
    target,         \* the target database as the target connection sees it
    durable,        \* the target database as committed
    schema,         \* the constraints and indices of the target
    saved,          \* create/drop statements and indices kept by before_import
    copy_manager,   \* whether self.copy_manager is set
    pc,             \* where main is
    fetched,        \* how many rows the torrents cursor has handed out
    results,        \* the result of the last merge_torrents call
    lastrowid,      \* cursor.lastrowid of the SQLite target cursor
    total_merged,   \* source.torrents_count
    failed_count,   \* main's failed_count
    exit_status,    \* "running", "0" or "1"
    error,          \* the exception that ended the loop: "none", "TypeError",
                    \* "DataError" (a NUL the retry did not remove) or "fault"
    \* what the program does not keep, recorded for the properties:
    processed_count,    \* the progress bar's position
    inserted_count,     \* the sum of results["inserted"] over the batches
    batch,              \* [torrents, before, torrent_ids]: the last batch, the
                        \* target's torrents before it, and the id map built for it
    start,              \* the target database when the run began
    schema0,            \* the schema when the run began
    source0,            \* the source database when the run began
    outcome,            \* "none", "committed" or "rolled_back"
    restored,           \* the definitions after_import recreated, in order
    retries,            \* the rounds the while loop of merge_files has made with
                        \* a files_list it cannot insert, modulo RetryWrap
    rerun               \* TRUE in the second run against the same target

vars == <<target_kind, source_kind, options, pgcopy, source, target, durable, schema,
          saved, copy_manager, pc, fetched, results, lastrowid, total_merged,
          failed_count, exit_status, error, processed_count, inserted_count, batch,
          start, schema0, source0, outcome, restored, retries, rerun>>

config == <<target_kind, source_kind, options, pgcopy>>

NoBatch(db) == [torrents |-> <<>>, before |-> db.torrents, torrent_ids |-> NoIds]

\* The secondary indices of the schema (CREATE INDEX ... in the docstring).
SecondaryIndices == {"readme_index", "modified_on_index"}

FullSchema(secondary) ==
    [constraints |-> PrimaryOrUnique \cup ForeignKeys,
     indices |-> PrimaryOrUnique \cup secondary]

\* stripped_files_constraint: WHERE (SELECT count(*) FROM files WHERE
\* torrents.id = files.torrent_id) > 0
Selected(src, stripped_files) ==
    {t \in src.torrents :
        stripped_files => \E f \in src.files : f.torrent_id = t.id}

\* get_torrents_cursor: SELECT * FROM torrents <stripped_files_constraint>
TorrentsCursor(src, stripped_files) == SeqOfSet(Selected(src, stripped_files))

\* The state after the two Database objects are constructed and the options
\* are set.
Setup(tk, sk, fast, stripped, copy, src, tgt, secondary) ==
    /\ target_kind = tk
    /\ source_kind = sk
    /\ options = [fast |-> fast, stripped_files |-> stripped]
    /\ pgcopy = copy
    /\ source = src
    /\ target = tgt
    /\ durable = tgt
    /\ schema = FullSchema(secondary)
    /\ saved = NothingSaved
    /\ copy_manager = FALSE
    /\ pc = "start"
    /\ fetched = 0
    /\ results = NoResult
    /\ lastrowid = 0
    /\ total_merged = 0
    /\ failed_count = 0
    /\ exit_status = "running"
    /\ error = "none"
    /\ processed_count = 0
    /\ inserted_count = 0
    /\ batch = NoBatch(tgt)
    /\ start = tgt
    /\ schema0 = FullSchema(secondary)
    /\ source0 = src
    /\ outcome = "none"
    /\ restored = <<>>
    /\ retries = 0
    /\ rerun = FALSE

\* SQLite target, SQLite or PostgreSQL source (a PostgreSQL text holds no NUL).
InitSQLiteTarget ==
    \E n \in 0..MaxTorrents : \E dup \in [1..n -> BOOLEAN] :
    \E nf \in [1..n -> {0, MaxFiles}] : \E pre \in 0..MaxPre :
    \E sk \in {"SQLite", "PostgreSQL"} : \E stripped \in BOOLEAN :
        Setup("SQLite", sk, FALSE, stripped, FALSE, SourceDb(n, nf, NoNul),
              TargetDb(n, dup, pre), SecondaryIndices)

\* PostgreSQL target, SQLite source, no NUL in the source.
InitPostgreSQLTarget ==
    \E n \in 0..MaxTorrents : \E dup \in [1..n -> BOOLEAN] :
    \E nf \in [1..n -> {0, MaxFiles}] :
    \E fast \in BOOLEAN : \E stripped \in BOOLEAN : \E copy \in BOOLEAN :
    \E secondary \in {{}, SecondaryIndices} :
        /\ ~fast => secondary = SecondaryIndices
        /\ Setup("PostgreSQL", "SQLite", fast, stripped, copy, SourceDb(n, nf, NoNul),
                 TargetDb(n, dup, 0), secondary)

\* PostgreSQL target, SQLite source with one NUL in a text value.
InitNul ==
    \E n \in 1..MaxTorrents : \E dup \in [1..n -> BOOLEAN] :
    \E fast \in BOOLEAN : \E copy \in BOOLEAN :
    \E nul \in NulSpots(n, [i \in 1..n |-> MaxFiles]) :
        Setup("PostgreSQL", "SQLite", fast, FALSE, copy,
              SourceDb(n, [i \in 1..n |-> MaxFiles], nul), TargetDb(n, dup, 0),
              SecondaryIndices)

Init == InitSQLiteTarget \/ InitPostgreSQLTarget \/ InitNul

\* ----------------------------------------------------------------- actions
\* main up to "try": count the torrents to merge, then target.before_import().
\* An exception of before_import leaves main.
Prepare ==
    /\ pc = "start"
    /\ LET r == before_import(target_kind, schema, options.fast)
       IN  /\ schema' = r.schema
           /\ saved' = r.saved
           /\ copy_manager' = (r.ok /\ target_kind = "PostgreSQL" /\ pgcopy)
           /\ pc' = IF r.ok THEN "merge" ELSE "crashed"
           /\ exit_status' = IF r.ok THEN exit_status ELSE "1"
    /\ total_merged' = Cardinality(Selected(source, options.stripped_files))
    /\ UNCHANGED <<config, source, source0, target, durable, fetched, results,
                   lastrowid, failed_count, error, processed_count, inserted_count,
                   batch, start, schema0, outcome, restored, rerun, retries>>

\* torrents.fetchmany(): the next arraysize rows of the torrents cursor.
NextBatch ==
    LET rows == TorrentsCursor(source, options.stripped_files)
    IN  SubSeq(rows, fetched + 1, Min(fetched + arraysize, Len(rows)))

\* target.merge_torrents(torrents)
merge_torrents(torrents, fault) ==
    IF target_kind = "SQLite"
    THEN [torrent_ids |-> NoIds] @@
         SQLiteMergeTorrents(target, lastrowid, torrents, source, source_kind, fault)
    ELSE [lastrowid |-> lastrowid, source |-> source] @@
         PGMergeTorrents(target, torrents, source, copy_manager, fault)

\* One round of the loop of main: fetch a batch, merge it, and when it was
\* not empty update the bar and failed_count.  fault is an error raised by
\* the fetch, by the torrent insert or by the file merge ("hang": the call
\* never returns).
MergeBatch(fault) ==
    /\ pc = "merge"
    /\ fault \in {"insert", "files", "value"} => NextBatch # <<>>
    /\ fault = "value" => target_kind = "PostgreSQL" /\ ~copy_manager
    /\ LET torrents == NextBatch
           r == merge_torrents(torrents, fault)
       IN  IF fault = "fetch"
           THEN /\ pc' = "except"
                /\ error' = "fault"
                /\ UNCHANGED <<source, target, results, lastrowid, fetched, failed_count,
                               processed_count, inserted_count, batch>>
           ELSE /\ target' = r.db
                /\ source' = r.source
                /\ lastrowid' = r.lastrowid
                /\ fetched' = fetched + Len(torrents)
                /\ batch' = [torrents |-> torrents, before |-> target.torrents,
                              torrent_ids |-> r.torrent_ids]
                /\ IF r.status = "ok"
                   THEN /\ results' = r.result
                        /\ failed_count' = failed_count + r.result.failed
                        /\ processed_count' = processed_count + r.result.processed
                        /\ inserted_count' = inserted_count + r.result.inserted
                        /\ pc' = IF r.result.processed > 0 THEN "merge" ELSE "merged"
                        /\ error' = error
                   ELSE /\ pc' = IF r.status = "hang" THEN "hang" ELSE "except"
                        /\ error' = IF r.status = "hang" THEN error
                                    ELSE IF fault = "none" THEN "DataError"
                                    ELSE "fault"
                        /\ UNCHANGED <<results, failed_count, processed_count,
                                       inserted_count>>
    /\ UNCHANGED <<config, source0, durable, schema, saved, copy_manager, total_merged,
                   exit_status, start, schema0, outcome, restored, rerun, retries>>

\* After the loop: with stripped_files, results["last"]["id"] (a TypeError
\* when "last" is None); then target.connection.commit().
Finish ==
    /\ pc = "merged"
    /\ IF options.stripped_files /\ results.last = <<>>
       THEN /\ pc' = "except"
            /\ error' = "TypeError"
            /\ UNCHANGED <<target, durable, outcome>>
       ELSE LET tx == commit(target, durable)
            IN  /\ target' = tx.work
                /\ durable' = tx.durable
                /\ outcome' = "committed"
                /\ pc' = "finally"
                /\ error' = error
    /\ UNCHANGED <<config, source, source0, schema, saved, copy_manager, fetched,
                   results, lastrowid, total_merged, failed_count, exit_status,
                   processed_count, inserted_count, batch, start, schema0, restored,
                   rerun, retries>>

\* One more round of the while loop of the slow path of merge_files, inside
\* the merge_torrents call that never returns: execute_values raises the
\* same ValueError and files_list stays what it was.
Retry ==
    /\ pc = "hang"
    /\ retries' = (retries + 1) % RetryWrap
    /\ UNCHANGED <<config, source, source0, target, durable, schema, saved,
                   copy_manager, pc, fetched, results, lastrowid, total_merged,
                   failed_count, exit_status, error, processed_count, inserted_count,
                   batch, start, schema0, outcome, restored, rerun>>

\* except BaseException: report, target.connection.rollback().  A SQLite
\* target attached to its source shares the source's connection: the rollback
\* is of that connection, back to the source the run began with (nothing is
\* committed before).
Except ==
    /\ pc = "except"
    /\ LET tx == rollback(target, durable)
       IN  /\ target' = tx.work
           /\ durable' = tx.durable
    /\ source' = IF target_kind = "SQLite" /\ merged_source(source_kind)
                 THEN source0
                 ELSE source
    /\ outcome' = "rolled_back"
    /\ pc' = "finally"
    /\ UNCHANGED <<config, source0, schema, saved, copy_manager, fetched, results,
                   lastrowid, error, total_merged, failed_count, exit_status,
                   processed_count, inserted_count, batch, start, schema0, restored,
                   rerun, retries>>

\* finally: target.after_import().  An exception of after_import leaves main.
Finally ==
    /\ pc = "finally"
    /\ LET r == after_import(target_kind, schema, saved, options.fast, durable)
       IN  /\ schema' = r.schema
           /\ pc' = IF r.ok THEN "close" ELSE "crashed"
           /\ exit_status' = IF r.ok THEN exit_status ELSE "1"
           /\ restored' = r.log
    /\ UNCHANGED <<config, source, source0, target, durable, saved, copy_manager,
                   fetched, results, lastrowid, total_merged, failed_count, error,
                   processed_count, inserted_count, batch, start, schema0, outcome,
                   rerun, retries>>

\* source.close(), target.close(), and main returns.
Close ==
    /\ pc = "close"
    /\ pc' = "done"
    /\ exit_status' = "0"
    /\ UNCHANGED <<config, source, source0, target, durable, schema, saved,
                   copy_manager, fetched, results, lastrowid, total_merged,
                   failed_count, error, processed_count, inserted_count, batch, start,
                   schema0, outcome, restored, rerun, retries>>

\* The program is run again with the same source against the target the
\* first, committed, run left.
Rerun ==
    /\ pc = "done"
    /\ outcome = "committed"
    /\ ~rerun
    /\ rerun' = TRUE
    /\ pc' = "start"
    /\ target' = durable
    /\ start' = durable
    /\ schema0' = schema
    /\ saved' = NothingSaved
    /\ copy_manager' = FALSE
    /\ fetched' = 0
    /\ results' = NoResult
    /\ lastrowid' = 0
    /\ total_merged' = 0
    /\ failed_count' = 0
    /\ exit_status' = "running"
    /\ error' = "none"
    /\ processed_count' = 0
    /\ inserted_count' = 0
    /\ batch' = NoBatch(durable)
    /\ outcome' = "none"
    /\ restored' = <<>>
    /\ retries' = 0
    /\ source0' = source
    /\ UNCHANGED <<config, source, durable, schema>>

Faults == {"none", "fetch", "insert", "files", "value"}

Next ==
    \/ Prepare
    \/ \E fault \in Faults : MergeBatch(fault)
    \/ Retry
    \/ Finish
    \/ Except
    \/ Finally
    \/ Close
    \/ Rerun

Spec == Init /\ [][Next]_vars

\* A step of main itself; whether the program is run again is the operator's
\* choice.
MainStep ==
    \/ Prepare
    \/ Finish
    \/ Except
    \/ Finally
    \/ Close
    \/ Retry
    \/ MergeBatch("fetch")
    \/ \E fault \in Faults \ {"fetch"} : MergeBatch(fault)

\* main is one sequential process: it takes its next step whenever it has
\* one.
FairSpec == Spec /\ WF_vars(MainStep)

\* -------------------------------------------------------------- properties
Hashes(torrents) == {t.info_hash : t \in torrents}

Ids(rows) == {r.id : r \in rows}

\* The source torrents of the run, in cursor order.
RunTorrents == TorrentsCursor(source, options.stripped_files)

\* The source torrents the run has handed to merge_torrents so far.
Handed == {RunTorrents[i] : i \in 1..fetched}

\* A source torrent whose hash the target held when the run began is a
\* duplicate; the others are accepted when they are processed (the hashes of
\* a source are pairwise distinct).
Duplicate(t) == t.info_hash \in Hashes(start.torrents)

SourceFilesOf(t) == {f \in source.files : f.torrent_id = t.id}

\* The file rows the run added to a target database.
AddedFiles(db) == db.files \ start.files

AddedTorrents(db) == db.torrents \ start.torrents

Committed == pc = "done" /\ outcome = "committed"

\* C1 (Completeness): after a successful run every accepted torrent has a new
\* row in the target, and each of its source file rows appears exactly once
\* among the added file rows, under that new row's id.
C1_Completeness ==
    Committed =>
        \A t \in source.torrents :
            (t \in Handed /\ ~Duplicate(t)) =>
                \E r \in AddedTorrents(durable) :
                    /\ r.info_hash = t.info_hash
                    /\ \A f \in SourceFilesOf(t) :
                          /\ Cardinality({g \in AddedFiles(durable) : g.origin = f.id}) = 1
                          /\ \A g \in AddedFiles(durable) :
                                g.origin = f.id => g.torrent_id = r.id

\* C2 (No orphaned child merge): no file row of a source torrent whose hash
\* was already in the target is written to the target.
C2_NoOrphanedChildMerge ==
    \A t \in Handed :
        Duplicate(t) =>
            \A g \in AddedFiles(target) : g.origin \notin Ids(SourceFilesOf(t))

\* C3 (Referential integrity): every file row of the committed target
\* references a torrent row of the committed target.
C3_ReferentialIntegrity == ReferencesHold(durable)

\* C4 (Atomicity): until the commit the committed target is the one the run
\* began with; after a rollback the connection sees it again; the commit is
\* reached only with every batch merged and no error raised.
C4_Atomicity ==
    /\ outcome # "committed" => durable = start
    /\ outcome = "rolled_back" => target = start
    /\ outcome = "committed" =>
          /\ error = "none"
          /\ fetched = Len(RunTorrents)
          /\ processed_count = total_merged
          /\ durable = target
    /\ error # "none" => outcome # "committed"

\* A run that merged a batch with new torrents, then met a fatal error in a
\* later batch, and has ended.
C4_Witness ==
    /\ pc = "done"
    /\ outcome = "rolled_back"
    /\ error = "fault"
    /\ inserted_count > 0
    /\ processed_count < total_merged

\* C5 (Idempotence): the second run against the target of a committed first
\* run adds no torrent row and no file row, and counts every source torrent
\* as failed.
C5_Idempotence ==
    rerun =>
        /\ target = start
        /\ durable = start
        /\ inserted_count = 0
        /\ failed_count = processed_count
        /\ outcome = "committed" => failed_count = Cardinality(source.torrents)

\* The second run has ended, over a source whose first run added torrents
\* with files.
C5_Witness ==
    /\ rerun
    /\ Committed
    /\ failed_count > 0
    /\ \E g \in start.files : g.origin # 0

\* The rows of the last batch whose hash the target held before the batch.
Collisions ==
    {i \in DOMAIN batch.torrents : batch.torrents[i].info_hash \in Hashes(batch.before)}

\* C6 (Collision is non-fatal and leaves the target's data alone): the rows
\* the target held before the run stay, no added file row is attached to a
\* torrent the target held before the run, every collision of a batch is
\* counted as failed, and a collision raises no error.
C6_CollisionLeavesTarget ==
    /\ start.torrents \subseteq target.torrents
    /\ start.files \subseteq target.files
    /\ \A g \in AddedFiles(target) : g.torrent_id \notin Ids(start.torrents)
    /\ pc \in {"merge", "merged"} => results.failed >= Cardinality(Collisions)

\* C7 (Count invariant): processed = inserted + failed for the result of
\* every merge_torrents call and for the totals of the run.
C7_CountInvariant ==
    /\ results.processed = results.inserted + results.failed
    /\ processed_count = inserted_count + failed_count

\* The loop has ended (the last result is the empty batch's) after batches
\* that inserted and batches that failed.
C7_Witness ==
    /\ pc = "merged"
    /\ results.processed = 0
    /\ inserted_count > 0
    /\ failed_count > 0

\* C8 (Exact counts): for every batch, inserted is the number of torrent rows
\* the batch added and failed the number of its rows whose hash the target
\* already held; when the loop ends the processed rows add up to the
\* precomputed total.
C8_ExactCounts ==
    /\ pc \in {"merge", "merged"} =>
          /\ results.inserted = Cardinality(target.torrents \ batch.before)
          /\ results.failed = Cardinality(Collisions)
    /\ pc = "merged" => processed_count = total_merged

C10_NulSanitized ==
    target_kind = "PostgreSQL" =>
        /\ error # "DataError"
        /\ pc # "hang"
        /\ (Committed /\ ~rerun) =>
              /\ \A t \in source.torrents :
                    (HasNul(t.name) /\ ~Duplicate(t)) =>
                        \E r \in AddedTorrents(durable) :
                            r.info_hash = t.info_hash /\ r.name = StripNul(t.name)
              /\ \A t \in source.torrents : \A f \in SourceFilesOf(t) :
                    (FileHasNul(f) /\ ~Duplicate(t)) =>
                        \E g \in AddedFiles(durable) :
                            /\ g.origin = f.id
                            /\ g.path = StripNul(f.path)
                            /\ g.content = StripNul(f.content)

\* C11 (Exit contract on failure): a run that met a fatal error inside the
\* merge transaction rolls back and ends with a non-zero exit status; the
\* exit status 0 is reached only after a commit.
C11_ExitContract ==
    /\ (error # "none" /\ pc \in {"finally", "close", "done"}) => outcome = "rolled_back"
    /\ (error # "none" /\ pc = "done") => exit_status = "1"
    /\ exit_status = "0" => outcome = "committed"

\* C12 (Stripped-source mode): when the loop has ended after a batch with
\* rows, results["last"] is the last row the cursor handed out, and a
\* stripped-files run whose batches all succeeded does not fail on reading it.
C12_StrippedLastId ==
    options.stripped_files =>
        /\ (pc = "merged" /\ fetched > 0) => results.last = <<RunTorrents[fetched]>>
        /\ error # "TypeError"

\* C13 (Batched id-returning strategy): on a PostgreSQL target the
\* old-id -> new-id map of a batch has exactly the accepted torrents of the
\* batch as keys and maps each to the id of the row the batch added for that
\* torrent's hash.
C13_IdMapOfAccepted ==
    (target_kind = "PostgreSQL" /\ pc \in {"merge", "merged"}) =>
        /\ DOMAIN batch.torrent_ids =
              {batch.torrents[i].id : i \in DOMAIN batch.torrents \ Collisions}
        /\ \A i \in DOMAIN batch.torrents :
              batch.torrents[i].id \in DOMAIN batch.torrent_ids =>
                  \E r \in target.torrents \ batch.before :
                      /\ r.id = batch.torrent_ids[batch.torrents[i].id]
                      /\ r.info_hash = batch.torrents[i].info_hash

\* C14 (Row-at-a-time strategy): on a SQLite target a row of a batch is
\* counted as failed exactly when its hash was in the target before it; a
\* failed row has none of its file rows merged, and the merged file rows of an
\* accepted row carry the id of the torrent row created for it.
C14_RowFailedIffConflict ==
    (target_kind = "SQLite" /\ pc \in {"merge", "merged"}) =>
        /\ results.failed = Cardinality(Collisions)
        /\ \A i \in DOMAIN batch.torrents :
              LET t == batch.torrents[i]
                  merged == {g \in AddedFiles(target) : g.origin \in Ids(SourceFilesOf(t))}
              IN  IF i \in Collisions
                  THEN merged = {}
                  ELSE \A g \in merged :
                          \E r \in target.torrents :
                              r.info_hash = t.info_hash /\ r.id = g.torrent_id

\* C15 (Encoding recovery is bounded): on a PostgreSQL target no insert is
\* retried without end, the retry after a null-character rejection is not
\* itself rejected for a null character (every text column was stripped), and
\* any other insert error ends the run without a commit.
C15_RecoveryBounded ==
    target_kind = "PostgreSQL" =>
        /\ pc # "hang"
        /\ error # "DataError"
        /\ error = "fault" => (pc \in {"except", "finally", "close", "done"}
                               /\ outcome # "committed")

\* C16 (Termination): every run that entered the batch loop eventually ends
\* in a commit or a rollback.
C16_Termination == (pc = "merge") ~> (outcome \in {"committed", "rolled_back"})

\* C17 (The content-hash uniqueness constraint is never suspended): in every
\* state the constraint torrents_info_hash_key and the index that backs it are
\* on the target, and no two torrent rows of the target, as the connection
\* sees it or as committed, have the same info_hash.  (InsertOrSkip takes the
\* constraint to be there; the first two conjuncts are what allows it to.)
C17_HashUniquenessKept ==
    /\ "torrents_info_hash_key" \in schema.constraints
    /\ "torrents_info_hash_key" \in schema.indices
    /\ \A t1, t2 \in target.torrents : t1.info_hash = t2.info_hash => t1 = t2
    /\ \A t1, t2 \in durable.torrents : t1.info_hash = t2.info_hash => t1 = t2

\* A fast-mode run between before_import and after_import, with the other
\* constraints and the secondary indices dropped, that has merged a batch in
\* which one torrent was accepted and one was rejected for its hash.
C17_Witness ==
    /\ target_kind = "PostgreSQL"
    /\ options.fast
    /\ pc = "merge"
    /\ saved.drop # <<>>
    /\ saved.indices # {}
    /\ "torrents_pkey" \notin schema.constraints
    /\ results.inserted > 0
    /\ results.failed > 0

\* C18 (Restore ordering in fast mode): after_import recreates every captured
\* index before any captured constraint, it acts only after the merge
\* transaction was committed or rolled back, and when it is done every
\* definition before_import dropped is among those recreated.
C18_RestoreOrdering ==
    (target_kind = "PostgreSQL" /\ options.fast) =>
        /\ \A i, j \in DOMAIN restored :
              (restored[i] \in saved.indices /\ restored[j] \notin saved.indices) => i < j
        /\ restored # <<>> => outcome \in {"committed", "rolled_back"}
        /\ pc \in {"close", "done"} =>
              {saved.drop[i] : i \in DOMAIN saved.drop} \cup saved.indices
                  \subseteq {restored[i] : i \in DOMAIN restored}

\* A fast-mode run that dropped constraints and indices, rolled back, and has
\* recreated them.
C18_Witness ==
    /\ target_kind = "PostgreSQL"
    /\ options.fast
    /\ pc = "done"
    /\ outcome = "rolled_back"
    /\ saved.indices # {}
    /\ saved.drop # <<>>
    /\ Len(restored) = Cardinality(saved.indices) + Len(saved.drop)

\* C19 (Fallback equivalence): on a PostgreSQL target, merging the next batch
\* into the current target without a copy manager succeeds exactly when
\* merging it with a copy manager does, and then leaves the same torrent rows
\* and file rows and returns the same counts.
C19_FallbackEquivalence ==
    (target_kind = "PostgreSQL" /\ pc = "merge") =>
        LET bulk == PGMergeTorrents(target, NextBatch, source, TRUE, "none")
            slow == PGMergeTorrents(target, NextBatch, source, FALSE, "none")
        IN  /\ (bulk.status = "ok") <=> (slow.status = "ok")
            /\ (bulk.status = "ok" /\ slow.status = "ok") =>
                  /\ bulk.db = slow.db
                  /\ bulk.result = slow.result

\* C20 (Cross-engine file merging): after a committed run with a SQLite
\* target and a PostgreSQL source, every source file row of every torrent the
\* run added is in the target, under that torrent's new id.
C20_CrossEngineFiles ==
    (target_kind = "SQLite" /\ source_kind = "PostgreSQL" /\ Committed /\ ~rerun) =>
        \A t \in source.torrents : \A r \in AddedTorrents(durable) :
            r.info_hash = t.info_hash =>
                \A f \in SourceFilesOf(t) :
                    \E g \in AddedFiles(durable) :
                        g.origin = f.id /\ g.torrent_id = r.id

\* C21 (Source is read-only): in every state of a run, and so after it,
\* committed or rolled back, the torrent rows and file rows of the source
\* are those it held when the run began.
C21_SourceReadOnly == source = source0

\* A committed run with a SQLite target attached to its SQLite source's
\* connection, the one pairing in which a statement could name the source's
\* tables, after file rows of the source were written to the target.
C21_Witness ==
    /\ pc = "done"
    /\ target_kind = "SQLite"
    /\ merged_source(source_kind)
    /\ outcome = "committed"
    /\ AddedFiles(durable) # {}

\* C22 (Recovery does not lose rows of the batch): on a PostgreSQL target,
\* after a batch with a null character in a torrent name was merged, every
\* torrent of the batch whose hash the target did not hold before the batch
\* is counted as inserted and has each of its source file rows in the target
\* under the id of its torrent row.
C22_RecoveryKeepsRows ==
    (/\ target_kind = "PostgreSQL"
     /\ pc = "merge"
     /\ \E i \in DOMAIN batch.torrents : HasNul(batch.torrents[i].name)) =>
        LET fresh == DOMAIN batch.torrents \ Collisions
        IN  /\ results.inserted = Cardinality(fresh)
            /\ \A i \in fresh : \A f \in SourceFilesOf(batch.torrents[i]) :
                  \E g \in AddedFiles(target) : \E r \in target.torrents :
                      /\ g.origin = f.id
                      /\ r.info_hash = batch.torrents[i].info_hash
                      /\ r.id = g.torrent_id
====
